---- MODULE Spec2Model ----
(***************************************************************************)
(* Model of scratch-archive/scratch-search.py: the sqlite/fts5 index over  *)
(* the archive tree <root>/<project>/<branch>/<timestamp>/[<type>/]<file>. *)
(* The store (documents + documents_fts) and the archive tree are the      *)
(* state; ingest and search are the operations.                            *)
(***************************************************************************)
EXTENDS Integers, Sequences, FiniteSets, TLC

\* ---------------------------------------------------------------- bounds
MaxSteps == 3       \* commands run and changes made to the archive tree
MaxLimit == 2       \* largest -n LIMIT tried by a search
MaxParts == 5       \* most segments of a path handed to the classifier alone
MaxLines == 2       \* most lines of a file handed to the line locator alone
MaxMigrations == 2  \* runs of the migration script on one workspace

\* ------------------------------------------------------ program constants
SKIP_FILES == {".scratch-index", ".DS_Store"}
SKIP_DIRS == {".git"}
VALID_TYPES == {"plans", "context", "research", "reviews", "filebox",
                "history", "prompts", "features"}

\* ------------------------------------------------- strings as characters
\* TLC strings are atoms; the names the code inspects character by
\* character are spelled out here.
Chars(s) ==
  CASE s = "20240101_120000" ->
         <<"2","0","2","4","0","1","0","1","_","1","2","0","0","0","0">>
    [] s = "20240102_120000" ->
         <<"2","0","2","4","0","1","0","2","_","1","2","0","0","0","0">>
    [] s = "20240101_120000\n" ->
         <<"2","0","2","4","0","1","0","1","_","1","2","0","0","0","0","\n">>
    [] s = "2024010_120000" ->
         <<"2","0","2","4","0","1","0","_","1","2","0","0","0","0">>
    [] s = "U+0662 U+0660 U+0662 U+0664 0101_120000" ->
         <<"U+0662","U+0660","U+0662","U+0664","0","1","0","1","_",
           "1","2","0","0","0","0">>
    [] s = "drafts"   -> <<"d","r","a","f","t","s">>
    [] s = "current.md"  -> <<"c","u","r","r","e","n","t",".","m","d">>
    [] s = "jwt_plan.md" -> <<"j","w","t","_","p","l","a","n",".","m","d">>
    [] s = "JWT_design.md" ->
         <<"J","W","T","_","d","e","s","i","g","n",".","m","d">>
    [] s = "tranche1_db_plan.md" ->
         <<"t","r","a","n","c","h","e","1","_","d","b","_","p","l","a","n",
           ".","m","d">>
    [] s = "tranche2_db_notes.md" ->
         <<"t","r","a","n","c","h","e","2","_","d","b","_","n","o","t","e","s",
           ".","m","d">>
    [] s = "notes.txt" -> <<"n","o","t","e","s",".","t","x","t">>
    [] s = "_plan" -> <<"_","p","l","a","n">>
    [] s = "_implementation" ->
         <<"_","i","m","p","l","e","m","e","n","t","a","t","i","o","n">>
    [] s = "_design" -> <<"_","d","e","s","i","g","n">>
    [] s = "_analysis" -> <<"_","a","n","a","l","y","s","i","s">>
    [] s = "_notes" -> <<"_","n","o","t","e","s">>
    [] s = "tranche" -> <<"t","r","a","n","c","h","e">>
    [] s = "latest"   -> <<"l","a","t","e","s","t">>
    [] s = "x.md"     -> <<"x",".","m","d">>
    [] s = "y.md"     -> <<"y",".","m","d">>
    [] s = "z.md"     -> <<"z",".","m","d">>
    [] s = "g.md"     -> <<"g",".","m","d">>
    [] s = "d.md"     -> <<"d",".","m","d">>
    [] s = "n.md"     -> <<"n",".","m","d">>
    [] s = "notes.md" -> <<"n","o","t","e","s",".","m","d">>
    [] s = "todo.txt" -> <<"t","o","d","o",".","t","x","t">>
    [] s = "\"jwt"    -> <<"\"","j","w","t">>
    [] OTHER          -> <<s>>

\* \d of a str pattern: any Unicode decimal digit (the ARABIC-INDIC digits
\* ZERO, TWO and FOUR stand for those outside ASCII)
Digits == {"0","1","2","3","4","5","6","7","8","9",
           "U+0660","U+0662","U+0664"}

\* faulty variant: any name passes
TIMESTAMP_REAnyName(s) == Len(Chars(s)) >= 1

\* TIMESTAMP_RE = ^\d{8}_\d{6}$ applied with re.match: `$` matches at the
\* end of the string and also just before a newline that ends it
TIMESTAMP_RE(s) ==
  LET c == Chars(s) IN
    /\ Len(c) \in {15, 16}
    /\ \A i \in 1..8 : c[i] \in Digits
    /\ c[9] = "_"
    /\ \A i \in 10..15 : c[i] \in Digits
    /\ Len(c) = 16 => c[16] = "\n"

\* fnmatch of the pattern "*.md" against a file name
MatchesMdGlob(name) ==
  LET c == Chars(name) IN
    /\ Len(c) >= 3
    /\ SubSeq(c, Len(c) - 2, Len(c)) = <<".", "m", "d">>

\* ------------------------------------------------------- the archive tree
T1 == "20240101_120000"
T2 == "20240102_120000"

\* a directory whose name is T1 followed by a line feed
T1Newline == "20240101_120000\n"

\* every entry that may exist under the archive root, as path segments
\* relative to the root
FileUniverse ==
  { <<"A", "main", T1, "plans", "x.md">>,
    <<"B", "main", T1Newline, "n.md">>,
    <<"A", "main", T2, "y.md">>,
    <<"B", "main", T1, "research", "z.md">>,
    <<"A", "main", T1, ".git", "g.md">>,
    <<"A", "notes.md">>,
    <<"A", "main", "drafts", "plans", "d.md">>,
    <<"B", "main", T1, "research", "todo.txt">> }

\* the entries the populating scripts write, remove or protect while the
\* index lives; the others stay as they are
MutableFiles ==
  { <<"A", "main", T1, "plans", "x.md">>,
    <<"A", "main", T2, "y.md">>,
    <<"B", "main", T1, "research", "z.md">> }

\* the walk visits entries in the order the directory scan returns them
FileOrder ==
  << <<"B", "main", T1, "research", "z.md">>,
     <<"B", "main", T1, "research", "todo.txt">>,
     <<"B", "main", T1Newline, "n.md">>,
     <<"A", "main", T1, "plans", "x.md">>,
     <<"A", "main", T1, ".git", "g.md">>,
     <<"A", "main", T2, "y.md">>,
     <<"A", "main", "drafts", "plans", "d.md">>,
     <<"A", "notes.md">> >>

\* text of each file, as its whitespace-delimited words
FileContent(f) ==
  CASE f = <<"A", "main", T1, "plans", "x.md">> ->
         <<"jwt", "rotation", "bug", "running">>
    [] f = <<"A", "main", T2, "y.md">> ->
         <<"jwt", "rotation", "design", "AND", "more">>
    [] f = <<"B", "main", T1, "research", "z.md">> ->
         <<"run", "run", "run">>
    [] OTHER -> <<"misc">>

\* the directories of the tree (they outlive the files in them)
IsPrefix(p, q) == Len(p) <= Len(q) /\ SubSeq(q, 1, Len(p)) = p
Dirs ==
  UNION { { SubSeq(f, 1, n) : n \in 0..(Len(f) - 1) } : f \in FileUniverse }

\* branches that may carry an entry named `latest`, and what it can be:
\* nothing, a symbolic link to the sibling of that name (T1, T2; "gone" is a
\* sibling that does not exist, "notes.txt" a regular file), or ("plain") an
\* ordinary directory
Branches == { <<"A", "main">>, <<"B", "main">> }
LinkStates == { "none", T1, T2, "gone", "notes.txt", "plain" }

\* the forms tried for each branch (under B/main there is no T2: a link to
\* it is a link to a missing target, like "gone")
LinkChoices(b) ==
  IF b = <<"A", "main">> THEN LinkStates ELSE { "none", T1, "gone" }

\* the archive root as configured (SCRATCH_ARCHIVE_BASE): "/r" is the real
\* directory, "/lnk" a symbolic link to it, "/none" a path where nothing is
Roots == { "/r", "/lnk", "/none" }
RealRoot == "/r"
NoRoot == "/none"

\* directories and *.md files that lie outside the archive root, as absolute
\* paths split at "/"
OutsideDirs == { <<"", "o">> }
OutsideFiles == { <<"", "o", "e.md">> }

\* what `--project` was given as, split at "/" ( <<>> : option absent;
\* <<"", "o">> is the absolute path /o )
ProjectArgs ==
  { <<>>, <<"A">>, <<"B">>, <<"A", "">>, <<".">>, <<"C">>, <<"", "o">>,
    <<"A", "main", "latest">> }

VARIABLES
  archive_base, \* ARCHIVE_BASE, as the environment gives it
  fstate,     \* archive entry -> "absent" | "ok" | "noperm"
  latest,     \* branch -> what its `latest` entry is
  dbExists,   \* archives.db exists
  docs,       \* committed rows of table documents
  fts,        \* committed rows of table documents_fts
  pc,         \* "idle", or "walk" while an ingest run is between its commits
  cur,        \* arguments of the ingest run in progress
  last,       \* outcome of the last finished command
  clock,      \* steps taken so far (commands and changes of the tree)
  call,       \* a function of the program applied on its own: input, result
  ws          \* the workspace directory of the migration script, and the
              \* outcome of its last run

vars ==
  <<archive_base, fstate, latest, dbExists, docs, fts, pc, cur, last, clock,
    call, ws>>

\* --------------------------------------------------------------- pathlib
\* archive_base / args.project : empty and "." segments vanish in the join
JoinPath(segs) ==
  SelectSeq(segs, LAMBDA s : s # "" /\ s # ".")

\* the string args.project equals the string p
ArgEquals(arg, p) == arg = <<p>>

\* link.is_symlink() of a branch's entry named latest
IsSymlink(branch) == latest[branch] \notin {"none", "plain"}

\* a branch's entry named latest exists (exists() follows a link: one whose
\* target is missing does not exist)
LatestExists(branch) ==
  /\ latest[branch] # "none"
  /\ IsSymlink(branch) =>
       \/ branch \o << latest[branch] >> \in Dirs
       \/ latest[branch] = "notes.txt"

\* the entry the operating system reaches for a path relative to the archive
\* root: a branch's `latest` link on the way is followed
RealFile(rel) ==
  IF /\ Len(rel) >= 3 /\ rel[3] = "latest"
     /\ SubSeq(rel, 1, 2) \in Branches
     /\ IsSymlink(SubSeq(rel, 1, 2))
  THEN SubSeq(rel, 1, 2) \o << latest[SubSeq(rel, 1, 2)] >>
         \o SubSeq(rel, 4, Len(rel))
  ELSE rel

\* Path.exists() for a path given relative to the archive root
PathExists(rel) ==
  \/ rel \in Dirs
  \/ rel \in FileUniverse /\ fstate[rel] # "absent"
  \/ \E b \in Branches : rel = b \o <<"latest">> /\ LatestExists(b)

\* archive_base.exists()
RootExists(root) == root # NoRoot

\* archive_base / args.project when args.project is absolute: pathlib drops
\* the left operand, scan_root is args.project itself
IsAbsolute(arg) == Len(arg) > 1 /\ arg[1] = ""

\* scan_root.exists()
ScanRootExists(arg) ==
  IF IsAbsolute(arg) THEN arg \in OutsideDirs ELSE PathExists(JoinPath(arg))

\* str(archive_base / ...): the configured root followed by the segments
AbsPath(root, rel) == <<root>> \o rel

\* Path.resolve(): every symbolic link on the way is followed
ResolveLink(root, branch) ==
  <<RealRoot>> \o branch
    \o << IF IsSymlink(branch) THEN latest[branch] ELSE "latest" >>

\* Path.is_dir() of a resolved path
IsDir(abs) ==
  /\ abs[1] = RealRoot
  /\ \/ Tail(abs) \in Dirs
     \/ \E b \in Branches :
          Tail(abs) = b \o <<"latest">> /\ latest[b] = "plain"

\* archive_base.rglob("latest"): the entries of that name that exist (a link
\* whose target is missing does not)
RglobLatest(root) == { b \in Branches : LatestExists(b) }

\* ------------------------------------------------ resolve_latest_timestamps
\* faulty variant: whatever a link leads to is taken
resolve_latest_timestampsAnyTarget(root) ==
  { ResolveLink(root, b) : b \in { x \in RglobLatest(root) : IsSymlink(x) } }

resolve_latest_timestamps(root) ==
  { ResolveLink(root, b) :
      b \in { x \in RglobLatest(root) :
                 IsSymlink(x) /\ IsDir(ResolveLink(root, x)) } }

\* ------------------------------------------------------ parse_archive_path
NoParse == [ok |-> FALSE]

\* faulty variant: the folder after the timestamp is never taken as a type
parse_archive_pathNoType(parts) ==
  IF Len(parts) < 4 THEN NoParse
  ELSE IF ~ TIMESTAMP_RE(parts[3]) THEN NoParse
  ELSE [ ok |-> TRUE,
         project |-> parts[1],
         branch |-> parts[2],
         timestamp |-> parts[3],
         dir_type |-> "root" ]

parse_archive_path(parts) ==
  IF Len(parts) < 4 THEN NoParse
  ELSE IF ~ TIMESTAMP_RE(parts[3]) THEN NoParse
  ELSE [ ok |-> TRUE,
         project |-> parts[1],
         branch |-> parts[2],
         timestamp |-> parts[3],
         dir_type |-> IF parts[4] \in VALID_TYPES THEN parts[4] ELSE "root" ]

\* ------------------------------------------------------------- the store
\* INTEGER PRIMARY KEY: a new row gets the largest id in the table plus one
NextRowid(D) ==
  IF D = {} THEN 1
  ELSE (CHOOSE m \in { d.id : d \in D } : \A d \in D : d.id <= m) + 1

\* faulty variant: the table without its UNIQUE(filepath): every insert goes in
InsertDocumentNoUnique(D, row) ==
  [ok |-> TRUE,
   docs |-> D \cup { [row EXCEPT !.id = NextRowid(D)] },
   id |-> NextRowid(D)]

\* INSERT INTO documents: filepath is UNIQUE, a second row for a path is
\* refused (sqlite3.IntegrityError)
InsertDocument(D, row) ==
  IF \E d \in D : d.filepath = row.filepath
  THEN [ok |-> FALSE, docs |-> D, id |-> 0]
  ELSE [ok |-> TRUE,
        docs |-> D \cup { [row EXCEPT !.id = NextRowid(D)] },
        id |-> NextRowid(D)]

\* INSERT INTO documents_fts (rowid, content): a rowid is taken once
InsertFts(F, doc_id, content) ==
  IF \E r \in F : r.rowid = doc_id
  THEN [ok |-> FALSE, fts |-> F]
  ELSE [ok |-> TRUE, fts |-> F \cup { [rowid |-> doc_id, content |-> content] }]

\* faulty variant: the tables are created if missing, never dropped
init_schemaKeep(D, F) == [docs |-> D, fts |-> F]

\* init_schema: both tables are dropped and created again
init_schema(D, F) == [docs |-> {}, fts |-> {}]

\* faulty variant: the project's rows go, their content stays behind
ScopedDeleteKeepFts(D, F, arg) ==
  [docs |-> { d \in D : ~ ArgEquals(arg, d.project) },
   fts  |-> F]

\* the scoped branch of do_ingest: the project's rows and their content go
ScopedDelete(D, F, arg) ==
  LET existing == { d.id : d \in { x \in D : ArgEquals(arg, x.project) } }
  IN [docs |-> { d \in D : ~ ArgEquals(arg, d.project) },
      fts  |-> { r \in F : r.rowid \notin existing }]

\* `if args.project:` : an absent or empty option selects the full rebuild
ArgGiven(arg) == arg # <<>> /\ arg # <<"">>

\* everything do_ingest commits before the walk starts
IngestDelete(D, F, arg) ==
  IF ArgGiven(arg) THEN ScopedDelete(D, F, arg) ELSE init_schema(D, F)

\* scan_root.rglob("*.md"), in the order of the directory scan. The scan
\* opens scan_root itself, through a link if it is one, and yields what it
\* finds as paths under scan_root; a linked directory below scan_root is not
\* entered.
RglobMd(scan) ==
  LET real == RealFile(scan)
      hits == SelectSeq(FileOrder,
                LAMBDA f : /\ fstate[f] # "absent"
                           /\ IsPrefix(real, f) /\ f # real
                           /\ MatchesMdGlob(f[Len(f)]))
  IN [ i \in 1..Len(hits) |->
         scan \o SubSeq(hits[i], Len(real) + 1, Len(hits[i])) ]

\* one round of the loop of do_ingest over the file f (relative segments)
IngestFile(st, root, f, latest_dirs, now) ==
  LET md_file == AbsPath(root, f)
      name    == f[Len(f)]
      parsed  == parse_archive_path(f)
  IN
  IF name \in SKIP_FILES THEN st
  ELSE IF \E i \in 1..Len(md_file) : md_file[i] \in SKIP_DIRS THEN st
  ELSE IF ~ parsed.ok THEN st
  ELSE
    LET ts_dir == AbsPath(root, <<parsed.project, parsed.branch, parsed.timestamp>>)
        is_latest == IF ts_dir \in latest_dirs THEN 1 ELSE 0
        row == [ id |-> 0,
                 project |-> parsed.project,
                 branch |-> parsed.branch,
                 timestamp |-> parsed.timestamp,
                 dir_type |-> parsed.dir_type,
                 filepath |-> md_file,
                 filename |-> name,
                 is_latest |-> is_latest,
                 indexed_at |-> now ]
        sv == [st EXCEPT !.visited = @ + 1]
    IN
    IF fstate[RealFile(f)] = "noperm"
    THEN [sv EXCEPT !.errors = @ + 1]
    ELSE
      LET ins == InsertDocument(st.docs, row) IN
      IF ~ ins.ok
      THEN [sv EXCEPT !.errors = @ + 1, !.dups = @ + 1]
      ELSE
        LET insf == InsertFts(st.fts, ins.id, FileContent(RealFile(f))) IN
        IF ~ insf.ok
        THEN [sv EXCEPT !.docs = ins.docs, !.errors = @ + 1, !.dups = @ + 1]
        ELSE [sv EXCEPT !.docs = ins.docs, !.fts = insf.fts,
                        !.count = @ + 1,
                        !.indexed = @ \cup {md_file}]

RECURSIVE WalkFiles(_, _, _, _, _)
WalkFiles(st, files, root, latest_dirs, now) ==
  IF files = <<>> THEN st
  ELSE WalkFiles(IngestFile(st, root, Head(files), latest_dirs, now),
                 Tail(files), root, latest_dirs, now)

\* the walk of do_ingest up to its commit, from the committed tables D, F.
\* count and errors are the two counters of the code; dups (how many of the
\* errors were IntegrityErrors), indexed (the paths counted) and visited (the
\* files that reached the read) are kept for the properties only. A file
\* found under a scan_root outside the archive root makes relative_to raise
\* ValueError in parse_archive_path, which nothing catches: the run ends
\* there (aborted), what it inserted is never committed.
WalkStart(D, F) ==
  [docs |-> D, fts |-> F, count |-> 0, errors |-> 0,
   dups |-> 0, indexed |-> {}, visited |-> 0, aborted |-> FALSE,
   latest_dirs |-> {}]

IngestWalk(D, F, arg, root, now) ==
  LET latest_dirs == resolve_latest_timestamps(root)
      st0 == [WalkStart(D, F) EXCEPT !.latest_dirs = latest_dirs]
  IN
  IF IsAbsolute(arg)
  THEN IF \E f \in OutsideFiles : IsPrefix(arg, f)
       THEN [st0 EXCEPT !.aborted = TRUE]
       ELSE st0
  ELSE WalkFiles(st0, RglobMd(JoinPath(arg)), root, latest_dirs, now)

\* faulty variant: the run appends what it finds to the rows already there
DoIngestAppend(D, F, arg, root, now) ==
  LET st  == IngestWalk({}, {}, arg, root, now)
      off == NextRowid(D) - 1
  IN [st EXCEPT !.docs = D \cup { [d EXCEPT !.id = @ + off] : d \in st.docs },
                !.fts = F \cup { [r EXCEPT !.rowid = @ + off] : r \in st.fts }]

\* a run of do_ingest that passed its checks, from the committed tables D, F:
\* the tables it leaves committed, and its counters
DoIngest(D, F, arg, root, now) ==
  LET del == IngestDelete(D, F, arg)
      st  == IngestWalk(del.docs, del.fts, arg, root, now)
  IN IF st.aborted THEN [st EXCEPT !.docs = del.docs, !.fts = del.fts] ELSE st

\* faulty variant: a project directory that is missing is not noticed
IngestChecksRootOnly(root, arg) ==
  IF ~ RootExists(root) THEN "archive dir not found" ELSE "ok"

\* the two checks do_ingest makes before it opens the store: what it writes
\* to the error stream before it returns 1, or "ok"
IngestChecks(root, arg) ==
  IF ~ RootExists(root) THEN "archive dir not found"
  ELSE IF ArgGiven(arg) /\ ~ ScanRootExists(arg) THEN "project not found"
  ELSE "ok"

\* ------------------------------------------------------------- outcomes
\* what a command printed and returned. For an ingest run, dropped (rows of
\* the store before the run whose path is not in the store after it) and
\* again (the command before it was the same ingest, the tree untouched in
\* between) are kept for the properties only.
NoFilter == [project |-> "", type |-> "", branch |-> "", latest |-> FALSE]

\* the options and surroundings of a search that decide how its rows are
\* shown: tty (sys.stdout.isatty()), --file-name, --no-fzf, which
\* (shutil.which("fzf") finds the picker) and pick, what the picker does
\* when it is started
PlainOpt ==
  [tty |-> FALSE, file_name |-> FALSE, no_fzf |-> FALSE, which |-> FALSE,
   pick |-> "selected"]

\* stderr is the message written to the error stream ("" : none), stdout the
\* lines printed, mode how the rows were shown, opened the file handed to
\* `open`; visited, aborted and latest_dirs are those of the walk
NoOutcome ==
  [cmd |-> "none", project |-> <<>>, rc |-> 0,
   count |-> 0, errors |-> 0, dups |-> 0, indexed |-> {},
   visited |-> 0, aborted |-> FALSE, latest_dirs |-> {},
   dropped |-> 0, again |-> FALSE,
   pattern |-> <<>>, filter |-> NoFilter, n |-> 0, rows |-> <<>>,
   opt |-> PlainOpt, mode |-> "none", stdout |-> <<>>, stderr |-> "",
   opened |-> <<>>]

IngestOutcome(arg, rc, st) ==
  [NoOutcome EXCEPT !.cmd = "ingest", !.project = arg, !.rc = rc, !.count = st.count, !.errors = st.errors,
                    !.dups = st.dups, !.indexed = st.indexed,
                    !.visited = st.visited, !.aborted = st.aborted,
                    !.latest_dirs = st.latest_dirs,
                    !.stderr = IF st.aborted THEN "Traceback" ELSE ""]

SearchOutcome(pattern, flt, n, rc, rows) ==
  [NoOutcome EXCEPT !.cmd = "search", !.pattern = pattern, !.filter = flt,
                    !.n = n, !.rc = rc, !.rows = rows]

\* the run in progress: its --project, and (for the properties only) the rows
\* that were committed when it started
NoCur == [project |-> <<>>, before |-> {}]

\* no function is being applied on its own
NoCall == [fn |-> "none", arg |-> <<>>, result |-> <<>>, done |-> FALSE]

\* the outcome of a run of the migration script: its switches, its exit
\* code, the candidates it found (name and source files, in the order they
\* were found), the names it created (with --dry-run: would create) and
\* whether it ended in an exception nothing catches
NoMigration ==
  [cmd |-> "none", dry_run |-> FALSE, interactive |-> FALSE,
   no_archive |-> FALSE, rc |-> 0, candidates |-> <<>>, created |-> {},
   crashed |-> FALSE]

\* the workspace directory: exists (the directory is there), plans_dir and
\* plans (plans/ and the names in it), features_dir (features/), folders
\* (the feature folders, each with the source files its meta.json names),
\* index (the names listed in features/_index.md, or "none"), archive_dir
\* and migrated (filebox/migrated_plans/ and the names in it), runs (how
\* often the script ran) and out (the outcome of its last run)
NoWorkspace ==
  [exists |-> FALSE, plans_dir |-> FALSE, plans |-> {},
   features_dir |-> FALSE, folders |-> {}, index |-> <<"none">>,
   archive_dir |-> FALSE, migrated |-> {}, runs |-> 0, out |-> NoMigration]

\* ----------------------------------------------------------------- Init
Init ==
  /\ archive_base \in Roots
  /\ fstate = [f \in FileUniverse |-> "ok"]
  /\ latest = [b \in Branches |-> IF b = <<"A", "main">> THEN T2 ELSE T1]
  /\ dbExists = FALSE
  /\ docs = {}
  /\ fts = {}
  /\ pc = "idle"
  /\ cur = NoCur
  /\ last = NoOutcome
  /\ clock = 0
  /\ call = NoCall
  /\ ws = NoWorkspace

\* ------------------------------------------------- the archive tree moves
\* (the scripts that populate the archive; outside this program)
FsTouched == [NoOutcome EXCEPT !.cmd = "fs"]

WriteFile(f) ==
  /\ pc = "idle" /\ clock < MaxSteps /\ last.cmd # "search"
  /\ RootExists(archive_base)
  /\ fstate[f] # "ok"
  /\ fstate' = [fstate EXCEPT ![f] = "ok"]
  /\ clock' = clock + 1
  /\ last' = FsTouched
  /\ UNCHANGED <<ws, call, archive_base, latest, dbExists, docs, fts, pc, cur>>

RemoveFile(f) ==
  /\ pc = "idle" /\ clock < MaxSteps /\ last.cmd # "search"
  /\ RootExists(archive_base)
  /\ fstate[f] # "absent"
  /\ fstate' = [fstate EXCEPT ![f] = "absent"]
  /\ clock' = clock + 1
  /\ last' = FsTouched
  /\ UNCHANGED <<ws, call, archive_base, latest, dbExists, docs, fts, pc, cur>>

ProtectFile(f) ==
  /\ pc = "idle" /\ clock < MaxSteps /\ last.cmd # "search"
  /\ RootExists(archive_base)
  /\ fstate[f] = "ok"
  /\ fstate' = [fstate EXCEPT ![f] = "noperm"]
  /\ clock' = clock + 1
  /\ last' = FsTouched
  /\ UNCHANGED <<ws, call, archive_base, latest, dbExists, docs, fts, pc, cur>>

Relink(b, t) ==
  /\ pc = "idle" /\ clock < MaxSteps /\ last.cmd # "search"
  /\ RootExists(archive_base)
  /\ latest[b] # t
  /\ latest' = [latest EXCEPT ![b] = t]
  /\ clock' = clock + 1
  /\ last' = FsTouched
  /\ UNCHANGED <<ws, call, archive_base, fstate, dbExists, docs, fts, pc, cur>>

\* ------------------------------------------------------------ do_ingest
\* the archive root is missing: exit 1 at the first check
IngestNoRoot(arg) ==
  /\ pc = "idle" /\ clock < MaxSteps /\ last.cmd # "search"
  /\ IngestChecks(archive_base, arg) = "archive dir not found"
  /\ clock' = clock + 1
  /\ last' = [IngestOutcome(arg, 1, NoOutcome) EXCEPT
                !.stderr = "archive dir not found"]
  /\ UNCHANGED <<ws, call, archive_base, fstate, latest, dbExists, docs, fts, pc, cur>>

\* the named project directory is missing: exit 1 before the store is opened
IngestNoProject(arg) ==
  /\ pc = "idle" /\ clock < MaxSteps /\ last.cmd # "search"
  /\ IngestChecks(archive_base, arg) = "project not found"
  /\ clock' = clock + 1
  /\ last' = [IngestOutcome(arg, 1, NoOutcome) EXCEPT
                !.stderr = "project not found"]
  /\ UNCHANGED <<ws, call, archive_base, fstate, latest, dbExists, docs, fts, pc, cur>>

\* a whole run of do_ingest that passes the checks (an exception nothing
\* catches ends the process with status 1)
Ingest(arg) ==
  /\ pc = "idle" /\ clock < MaxSteps /\ last.cmd # "search"
  /\ IngestChecks(archive_base, arg) = "ok"
  /\ LET st == DoIngest(docs, fts, arg, archive_base, clock + 1)
     IN /\ docs' = st.docs
        /\ fts' = st.fts
        /\ last' = [IngestOutcome(arg, IF st.aborted THEN 1 ELSE 0, st) EXCEPT
                      !.dropped = Cardinality({ d \in docs :
                          \A e \in st.docs : e.filepath # d.filepath }),
                      !.again = /\ last.cmd = "ingest" /\ last.rc = 0
                                /\ last.project = arg]
  /\ dbExists' = TRUE
  /\ clock' = clock + 1
  /\ UNCHANGED <<ws, call, archive_base, fstate, latest, pc, cur>>

\* ------------------------------------------------- the fts5 text index
\* tokenize='porter unicode61': a word is case-folded, then stemmed
Token(w) ==
  CASE w = "running"  -> "run"
    [] w = "run"      -> "run"
    [] w = "rotation" -> "rotat"
    [] w = "AND"      -> "and"
    [] OTHER          -> w

Tokens(content) == [i \in 1..Len(content) |-> Token(content[i])]

\* the fts5 query grammar, word by word: a quote opens a phrase that must be
\* closed, AND/OR/NOT are operators, anything else made of letters, digits
\* and "_" is a bareword (names not spelled out in Chars are such)
FtsOperators == {"AND", "OR", "NOT"}
FtsSpecialChars == {"\"", "-", ".", "+", "*", ":", "(", ")", "^"}

IsBareword(w) ==
  /\ w \notin FtsOperators
  /\ \A i \in 1..Len(Chars(w)) : Chars(w)[i] \notin FtsSpecialChars

\* faulty variant: every query is taken as a list of words
QueryOkAny(pattern) == pattern # <<>>

\* the query is accepted: here, one or more barewords (an implicit AND)
QueryOk(pattern) ==
  /\ pattern # <<>>
  /\ \A i \in 1..Len(pattern) : IsBareword(pattern[i])

\* faulty variant: the query term is compared as typed, not tokenized
FtsMatchRaw(row, pattern) ==
  \A i \in 1..Len(pattern) :
    \E j \in 1..Len(row.content) : Token(row.content[j]) = pattern[i]

\* documents_fts MATCH ? : every term of the query is a token of the row
FtsMatch(row, pattern) ==
  \A i \in 1..Len(pattern) :
    \E j \in 1..Len(row.content) : Token(row.content[j]) = Token(pattern[i])

\* occurrences of the term in the row
TermFreq(row, term) ==
  Cardinality({ j \in 1..Len(row.content) : Token(row.content[j]) = Token(term) })

RECURSIVE SumLen(_)
SumLen(F) ==
  IF F = {} THEN 0
  ELSE LET r == CHOOSE x \in F : TRUE IN Len(r.content) + SumLen(F \ {r})

\* bm25 (k1 = 1.2, b = 0.75) of a one-term query orders two rows by
\* tf / (tf + 0.3 + 0.9 * len * N / total): r1 ranks strictly before r2
RankBefore(F, r1, r2, term) ==
  LET total == SumLen(F)
      N     == Cardinality(F)
  IN TermFreq(r1, term) * (total + 3 * N * Len(r2.content))
       > TermFreq(r2, term) * (total + 3 * N * Len(r1.content))

\* faulty variant: the rows come in rowid order
RECURSIVE OrderByRowid(_, _, _)
OrderByRowid(F, M, term) ==
  IF M = {} THEN <<>>
  ELSE LET first == CHOOSE r \in M : \A o \in M : r.rowid <= o.rowid
       IN <<first>> \o OrderByRowid(F, M \ {first}, term)

\* ORDER BY rank: best first, rows of equal rank in rowid order
RECURSIVE OrderByRank(_, _, _)
OrderByRank(F, M, term) ==
  IF M = {} THEN <<>>
  ELSE LET best == CHOOSE r \in M : \A o \in M \ {r} :
                       \/ RankBefore(F, r, o, term)
                       \/ ~ RankBefore(F, o, r, term) /\ r.rowid < o.rowid
       IN <<best>> \o OrderByRank(F, M \ {best}, term)

\* LIMIT ? : a negative limit is no limit
SqlLimit(rows, n) ==
  IF n < 0 \/ n >= Len(rows) THEN rows ELSE SubSeq(rows, 1, n)

\* faulty variant: the conditions are joined with OR
FilterOkAny(d, flt) ==
  \/ flt = NoFilter
  \/ flt.project # "" /\ d.project = flt.project
  \/ flt.type # "" /\ d.dir_type = flt.type
  \/ flt.branch # "" /\ d.branch = flt.branch
  \/ flt.latest /\ d.is_latest = 1

\* the WHERE clause built by do_search from the options given
FilterOk(d, flt) ==
  /\ flt.project = "" \/ d.project = flt.project
  /\ flt.type = "" \/ d.dir_type = flt.type
  /\ flt.branch = "" \/ d.branch = flt.branch
  /\ ~ flt.latest \/ d.is_latest = 1

\* the SELECT of do_search: the file paths of the rows, in order
SearchRows(D, F, pattern, flt, n) ==
  LET M == { r \in F : /\ FtsMatch(r, pattern)
                        /\ \E d \in D : d.id = r.rowid /\ FilterOk(d, flt) }
      sorted == SqlLimit(OrderByRank(F, M, pattern[1]), n)
  IN [i \in 1..Len(sorted) |->
        (CHOOSE d \in D : d.id = sorted[i].rowid).filepath]

\* the search patterns tried, as their whitespace-separated words
Patterns == { <<"jwt">>, <<"bug">>, <<"running">>, <<"AND">>, <<"\"jwt">> }
Limits == (-1)..MaxLimit
\* every subset of the four facet options, each with one value
Filters ==
  { [project |-> p, type |-> t, branch |-> b, latest |-> l] :
      p \in {"", "A"}, t \in {"", "plans"}, b \in {"", "main"},
      l \in BOOLEAN }

\* what the picker does once started: a line is selected (the first), it
\* exits non-zero (esc), it exits 0 with nothing selected, or the executable
\* is not there to start (FileNotFoundError)
PickerOutcomes == { "selected", "cancelled", "empty", "notfound" }

\* the presentation options tried: every combination of the four switches,
\* and every picker outcome on a terminal with the picker installed
Options ==
  [tty : BOOLEAN, file_name : BOOLEAN, no_fzf : BOOLEAN, which : BOOLEAN,
   pick : {"selected"}]
  \cup
  [tty : {TRUE}, file_name : BOOLEAN, no_fzf : {FALSE}, which : {TRUE},
   pick : PickerOutcomes]

\* the command lines tried: each pattern with each limit, each filter and
\* each presentation option
SearchArgs ==
  { [pattern |-> p, filter |-> NoFilter, n |-> n, opt |-> PlainOpt] :
      p \in Patterns, n \in Limits }
  \cup
  { [pattern |-> <<"jwt">>, filter |-> f, n |-> MaxLimit, opt |-> PlainOpt] :
      f \in Filters }
  \cup
  { [pattern |-> <<"jwt">>, filter |-> NoFilter, n |-> MaxLimit, opt |-> o] :
      o \in Options }

\* ------------------------------------------------------------ do_search
\* faulty variant: the picker is used on a terminal only
use_fzfTtyOnly(opt) == opt.tty /\ opt.which /\ ~ opt.no_fzf

\* use_fzf = (isatty or --file-name) and which("fzf") and not --no-fzf
use_fzf(opt) == (opt.tty \/ opt.file_name) /\ opt.which /\ ~ opt.no_fzf

\* the display string of a row, before its ":lineno":
\* project/branch/ts/dir_type/filename
RowLine(D, filepath) ==
  LET d == CHOOSE x \in D : x.filepath = filepath
  IN <<d.project, d.branch, d.timestamp, d.dir_type, d.filename>>

\* faulty variant: a picker that selected nothing is reported as a failure
fzf_pickStrict(out, rows, pick, open_file) ==
  IF pick = "selected" /\ open_file THEN [out EXCEPT !.opened = rows[1]]
  ELSE IF pick = "selected" THEN [out EXCEPT !.stdout = <<rows[1]>>]
  ELSE [out EXCEPT !.rc = 1, !.stderr = "fzf not found"]

\* _fzf_pick: the rows go to the picker; out is the outcome so far
fzf_pick(out, rows, pick, open_file) ==
  IF pick = "notfound"
  THEN [out EXCEPT !.rc = 1, !.stderr = "fzf not found"]
  ELSE IF pick # "selected" THEN out
  ELSE IF open_file THEN [out EXCEPT !.opened = rows[1]]
  ELSE [out EXCEPT !.stdout = <<rows[1]>>]

\* do_search: what it prints and returns
do_search(D, F, db, pattern, flt, n, opt) ==
  LET out == [SearchOutcome(pattern, flt, n, 0, <<>>) EXCEPT !.opt = opt]
  IN
  IF ~ db THEN [out EXCEPT !.rc = 1, !.stderr = "no database found"]
  ELSE IF ~ QueryOk(pattern)
  THEN [out EXCEPT !.rc = 1, !.stderr = "search error, tip"]
  ELSE
    LET rows == SearchRows(D, F, pattern, flt, n) IN
    IF rows = <<>> THEN [out EXCEPT !.stdout = << <<"no results for">> >>]
    ELSE IF use_fzf(opt)
    THEN fzf_pick([out EXCEPT !.rows = rows, !.mode = "fzf"],
                  rows, opt.pick, ~ opt.file_name)
    ELSE [out EXCEPT !.rows = rows, !.mode = "plain",
                     !.stdout = [i \in 1..Len(rows) |-> RowLine(D, rows[i])]]

\* (a search changes nothing that a later command reads: in the behaviours
\* explored a search is the last command, every guard has last.cmd # "search")
Search(pattern, flt, n, opt) ==
  /\ pc = "idle" /\ clock < MaxSteps /\ last.cmd # "search"
  /\ clock' = clock + 1
  /\ last' = do_search(docs, fts, dbExists, pattern, flt, n, opt)
  /\ UNCHANGED <<ws, call, archive_base, fstate, latest, dbExists, docs, fts, pc, cur>>

\* the same run in its two commits, and its interruption between them.
\* Everything up to the commit that follows the delete:
IngestBegin(arg) ==
  /\ pc = "idle" /\ clock < MaxSteps /\ last.cmd # "search"
  /\ IngestChecks(archive_base, arg) = "ok"
  /\ LET del == IngestDelete(docs, fts, arg)
     IN docs' = del.docs /\ fts' = del.fts
  /\ dbExists' = TRUE
  /\ pc' = "walk"
  /\ cur' = [project |-> arg, before |-> docs]
  /\ clock' = clock + 1
  /\ UNCHANGED <<ws, call, archive_base, fstate, latest, last>>

\* the walk and the final commit
IngestFinish ==
  /\ pc = "walk"
  /\ LET st == IngestWalk(docs, fts, cur.project, archive_base, clock)
     IN /\ docs' = IF st.aborted THEN docs ELSE st.docs
        /\ fts' = IF st.aborted THEN fts ELSE st.fts
        /\ last' = IngestOutcome(cur.project, IF st.aborted THEN 1 ELSE 0, st)
  /\ pc' = "idle"
  /\ UNCHANGED <<ws, call, archive_base, fstate, latest, dbExists, cur, clock>>

\* the process is killed during the walk: what was not committed is lost
Interrupt ==
  /\ pc = "walk"
  /\ pc' = "idle"
  /\ last' = [NoOutcome EXCEPT !.cmd = "interrupted", !.project = cur.project]
  /\ UNCHANGED <<ws, call, archive_base, fstate, latest, dbExists, docs, fts, cur, clock>>

FsStep ==
  \/ \E f \in MutableFiles : WriteFile(f)
  \/ \E f \in MutableFiles : RemoveFile(f)
  \/ \E f \in MutableFiles : ProtectFile(f)
  \/ \E b \in Branches : \E t \in LinkChoices(b) : Relink(b, t)

Next ==
  \/ FsStep
  \/ \E arg \in ProjectArgs : IngestNoRoot(arg)
  \/ \E arg \in ProjectArgs : IngestNoProject(arg)
  \/ \E arg \in ProjectArgs : Ingest(arg)
  \/ \E a \in SearchArgs : Search(a.pattern, a.filter, a.n, a.opt)

Spec == Init /\ [][Next]_vars

\* the runs of do_ingest taken commit by commit, with interruptions
NextCrash ==
  \/ FsStep
  \/ \E arg \in ProjectArgs : IngestNoRoot(arg)
  \/ \E arg \in ProjectArgs : IngestNoProject(arg)
  \/ \E arg \in ProjectArgs : IngestBegin(arg)
  \/ IngestFinish
  \/ Interrupt
  \/ \E a \in SearchArgs : Search(a.pattern, a.filter, a.n, a.opt)

SpecCrash == Init /\ [][NextCrash]_vars

\* ------------------------------------- parse_archive_path applied alone
\* the names a segment of the relative path is drawn from
ParseSegs ==
  { "A", T1, "20240101_120000\n", "2024010_120000",
    "U+0662 U+0660 U+0662 U+0664 0101_120000", "plans", "x.md" }

\* filepath.relative_to(archive_base).parts, for every path tried
PathInputs == UNION { [1..k -> ParseSegs] : k \in 0..MaxParts }

InitParse ==
  /\ archive_base = RealRoot
  /\ fstate = [f \in FileUniverse |-> "ok"]
  /\ latest = [b \in Branches |-> IF b = <<"A", "main">> THEN T2 ELSE T1]
  /\ dbExists = FALSE
  /\ docs = {}
  /\ fts = {}
  /\ pc = "idle"
  /\ cur = NoCur
  /\ last = NoOutcome
  /\ clock = 0
  /\ call \in { [NoCall EXCEPT !.fn = "parse_archive_path", !.arg = parts] :
                  parts \in PathInputs }
  /\ ws = NoWorkspace

Classify ==
  /\ call.fn = "parse_archive_path" /\ ~ call.done
  /\ call' = [call EXCEPT !.result = parse_archive_path(call.arg),
                          !.done = TRUE]
  /\ UNCHANGED <<ws, archive_base, fstate, latest, dbExists, docs, fts, pc, cur,
                 last, clock>>

SpecParse == InitParse /\ [][Classify]_vars

\* --------------------------------------- _find_match_line applied alone
\* Texts are sequences of characters. "U+03A3", "U+03C3" and "U+03C2" stand
\* for GREEK CAPITAL LETTER SIGMA, SMALL LETTER SIGMA and SMALL LETTER FINAL
\* SIGMA, "U+039F" and "U+03BF" for capital and small OMICRON.
UpperToLower ==
  [c \in {"J", "W", "T", "N", "U+039F", "U+03A3"} |->
     CASE c = "J" -> "j" [] c = "W" -> "w" [] c = "T" -> "t"
       [] c = "N" -> "n"
       [] c = "U+039F" -> "U+03BF" [] c = "U+03A3" -> "U+03C3"]

\* characters that have a case
IsCased(c) ==
  c \in {"j", "w", "t", "x", "z", "q", "n", "J", "W", "T", "N",
         "U+039F", "U+03BF", "U+03A3", "U+03C3", "U+03C2"}

\* str.lower(): character by character, except that a capital sigma that
\* ends a word (a cased character before it, none after it) becomes the
\* final sigma
str_lower(s) ==
  [ i \in 1..Len(s) |->
      IF s[i] = "U+03A3"
      THEN IF /\ i > 1 /\ IsCased(s[i - 1])
              /\ (i = Len(s) \/ ~ IsCased(s[i + 1]))
           THEN "U+03C2"
           ELSE "U+03C3"
      ELSE IF s[i] \in DOMAIN UpperToLower THEN UpperToLower[s[i]] ELSE s[i] ]

\* pattern.replace('"', "")
RemoveQuotes(s) == SelectSeq(s, LAMBDA c : c # "\"")

\* str.split(): the maximal runs of characters that are not white space
RECURSIVE SplitFrom(_, _, _)
SplitFrom(s, i, word) ==
  IF i > Len(s) THEN (IF word = <<>> THEN <<>> ELSE <<word>>)
  ELSE IF s[i] = " "
       THEN (IF word = <<>> THEN <<>> ELSE <<word>>) \o SplitFrom(s, i + 1, <<>>)
       ELSE SplitFrom(s, i + 1, Append(word, s[i]))

Split(s) == SplitFrom(s, 1, <<>>)

\* t in s
Contains(s, t) ==
  \E i \in 0..(Len(s) - Len(t)) : SubSeq(s, i + 1, i + Len(t)) = t

\* the loop of _find_match_line from line i on
RECURSIVE ScanLines(_, _, _)
ScanLines(lines, terms, i) ==
  IF i > Len(lines) THEN 1
  ELSE IF \E k \in 1..Len(terms) :
            Contains(str_lower(lines[i]), str_lower(terms[k]))
       THEN i
       ELSE ScanLines(lines, terms, i + 1)

\* _find_match_line(filepath, pattern); lines is what splitlines() makes of
\* the file's text, readable is FALSE when read_text raises OSError
find_match_line(lines, pattern, readable) ==
  LET terms == Split(RemoveQuotes(pattern)) IN
  IF ~ readable THEN 1 ELSE ScanLines(lines, terms, 1)

\* the lines and the patterns tried
LineTexts ==
  { <<"j", "w", "t">>,
    <<"J", "W", "T", " ", "x">>,
    <<"U+039F", "U+03A3">>,
    <<"x", " ", "U+03A3">>,
    <<>> }

LinePatterns ==
  { <<>>,
    <<"\"", "\"">>,
    <<" ">>,
    <<"j", "w", "t">>,
    <<"J", "w", "T">>,
    <<"\"", "j", "w", "t", " ", "z", "\"">>,
    <<"z", " ", "x">>,
    <<"q">>,
    <<"U+03A3">> }

LineFiles == UNION { [1..k -> LineTexts] : k \in 0..MaxLines }

InitLine ==
  /\ archive_base = RealRoot
  /\ fstate = [f \in FileUniverse |-> "ok"]
  /\ latest = [b \in Branches |-> IF b = <<"A", "main">> THEN T2 ELSE T1]
  /\ dbExists = FALSE
  /\ docs = {}
  /\ fts = {}
  /\ pc = "idle"
  /\ cur = NoCur
  /\ last = NoOutcome
  /\ clock = 0
  /\ call \in { [NoCall EXCEPT !.fn = "_find_match_line",
                                !.arg = [lines |-> f, pattern |-> p,
                                         readable |-> r]] :
                  f \in LineFiles, p \in LinePatterns, r \in BOOLEAN }
  /\ ws = NoWorkspace

Locate ==
  /\ call.fn = "_find_match_line" /\ ~ call.done
  /\ call' = [call EXCEPT
                !.result = find_match_line(call.arg.lines, call.arg.pattern,
                                           call.arg.readable),
                !.done = TRUE]
  /\ UNCHANGED <<ws, archive_base, fstate, latest, dbExists, docs, fts, pc, cur,
                 last, clock>>

SpecLine == InitLine /\ [][Locate]_vars

\* ------------------------------------------ workspace-migrate-features
\* the names plans/ may hold, in the order the directory scan returns them
PlanOrder ==
  << "tranche1_db_plan.md", "jwt_plan.md", "current.md", "JWT_design.md",
     "notes.txt", "tranche2_db_notes.md" >>

PlanUniverse == { PlanOrder[i] : i \in 1..Len(PlanOrder) }

\* Path.stem: the name without its last suffix
RECURSIVE LastDot(_, _)
LastDot(c, i) ==
  IF i = 0 THEN 0 ELSE IF c[i] = "." THEN i ELSE LastDot(c, i - 1)

Stem(c) ==
  LET i == LastDot(c, Len(c)) IN
  IF 1 < i /\ i < Len(c) THEN SubSeq(c, 1, i - 1) ELSE c

\* str.endswith
EndsWith(c, suf) ==
  Len(c) >= Len(suf) /\ SubSeq(c, Len(c) - Len(suf) + 1, Len(c)) = suf

\* the suffixes analyze_plans_directory strips, each tried once, in order
SUFFIXES == << "_plan", "_implementation", "_design", "_analysis", "_notes" >>

RECURSIVE StripSuffixes(_, _)
StripSuffixes(c, sufs) ==
  IF sufs = <<>> THEN c
  ELSE LET suf == Chars(Head(sufs)) IN
       StripSuffixes(IF EndsWith(c, suf)
                     THEN SubSeq(c, 1, Len(c) - Len(suf)) ELSE c,
                     Tail(sufs))

\* re.match(r'tranche(\d+)_(.+)', feature_name): group(2) when it matches,
\* else the name as it is
RECURSIVE DigitsEnd(_, _)
DigitsEnd(c, i) ==
  IF i <= Len(c) /\ c[i] \in Digits THEN DigitsEnd(c, i + 1) ELSE i

TrancheGroup(c) ==
  LET t == Chars("tranche")
      e == DigitsEnd(c, Len(t) + 1)
  IN IF /\ Len(c) > Len(t) /\ SubSeq(c, 1, Len(t)) = t
        /\ e > Len(t) + 1
        /\ e < Len(c) /\ c[e] = "_"
     THEN SubSeq(c, e + 1, Len(c))
     ELSE c

\* re.sub(r'[...]+', '-', name): every maximal run of characters of the
\* class becomes one "-"
RECURSIVE ReplaceRuns(_, _, _)
ReplaceRuns(c, class, i) ==
  IF i > Len(c) THEN <<>>
  ELSE IF c[i] \in class
       THEN (IF i > 1 /\ c[i - 1] \in class THEN <<>> ELSE <<"-">>)
              \o ReplaceRuns(c, class, i + 1)
       ELSE <<c[i]>> \o ReplaceRuns(c, class, i + 1)

\* [a-z0-9-]
SlugChars ==
  {"a","b","c","d","e","f","g","h","i","j","k","l","m","n","o","p","q","r",
   "s","t","u","v","w","x","y","z",
   "0","1","2","3","4","5","6","7","8","9","-"}

\* str.strip(chars)
RECURSIVE StripChars(_, _)
StripChars(c, chars) ==
  IF c = <<>> THEN c
  ELSE IF c[1] \in chars THEN StripChars(Tail(c), chars)
  ELSE IF c[Len(c)] \in chars THEN StripChars(SubSeq(c, 1, Len(c) - 1), chars)
  ELSE c

slugify(name) ==
  LET lowered == str_lower(name)
      dashed  == ReplaceRuns(lowered, {"_", " "}, 1)
      kept    == SelectSeq(dashed, LAMBDA ch : ch \in SlugChars)
      single  == ReplaceRuns(kept, {"-"}, 1)
  IN StripChars(single, {"-"})

\* the feature name analyze_plans_directory derives from a file name
FeatureSlug(file) ==
  slugify(TrancheGroup(StripSuffixes(Stem(Chars(file)), SUFFIXES)))

\* the loop of analyze_plans_directory: feature_groups, in insertion order
RECURSIVE GroupPlans(_, _)
GroupPlans(files, groups) ==
  IF files = <<>> THEN groups
  ELSE LET f    == Head(files)
           slug == FeatureSlug(f)
           idx  == { i \in 1..Len(groups) : groups[i].name = slug }
       IN IF idx = {}
          THEN GroupPlans(Tail(files),
                          Append(groups, [name |-> slug, source_files |-> <<f>>]))
          ELSE LET i == CHOOSE k \in idx : TRUE IN
               GroupPlans(Tail(files),
                          [groups EXCEPT ![i].source_files = Append(@, f)])

\* analyze_plans_directory: no plans/ gives nothing; else plans_dir.glob("*.md")
\* without current.md, grouped
analyze_plans_directory(w) ==
  IF ~ w.plans_dir THEN <<>>
  ELSE GroupPlans(SelectSeq(PlanOrder,
                            LAMBDA f : /\ f \in w.plans
                                       /\ MatchesMdGlob(f)
                                       /\ f # "current.md"),
                  <<>>)

\* faulty variant: the folder is written whatever dry_run says
create_feature_folderAlways(w, candidate, dry_run) ==
  [w EXCEPT !.features_dir = TRUE,
            !.folders = { x \in @ : x.name # candidate.name }
                          \cup { [name |-> candidate.name,
                                  migrated_from |-> candidate.source_files] }]

\* create_feature_folder: with dry_run nothing is written; else the folder
\* and its spec.md, facts.md and meta.json are written (again, if there)
create_feature_folder(w, candidate, dry_run) ==
  IF dry_run THEN w
  ELSE [w EXCEPT !.features_dir = TRUE,
                 !.folders = { x \in @ : x.name # candidate.name }
                               \cup { [name |-> candidate.name,
                                       migrated_from |-> candidate.source_files] }]

\* update_feature_index: _index.md is written anew with the rows of the
\* features created by this run
update_feature_index(w, created, dry_run) ==
  IF dry_run THEN w
  ELSE [w EXCEPT !.index = << { created[i].name : i \in 1..Len(created) } >>]

\* the source files of a list of candidates
SourceFiles(created) ==
  UNION { { created[i].source_files[k] :
              k \in 1..Len(created[i].source_files) } :
          i \in 1..Len(created) }

\* archive_migrated_plans: every source file still in plans/ is moved
archive_migrated_plans(w, created, dry_run) ==
  IF dry_run THEN w
  ELSE LET moved == SourceFiles(created) \cap w.plans IN
       [w EXCEPT !.archive_dir = TRUE,
                 !.plans = @ \ moved,
                 !.migrated = @ \cup moved]

\* what input() gives at a prompt: a line, or EOFError when the input has
\* ended
Responses ==
  { [eof |-> FALSE, text |-> <<>>],
    [eof |-> FALSE, text |-> <<"y">>],
    [eof |-> FALSE, text |-> <<"n">>],
    [eof |-> FALSE, text |-> <<" ", "N">>],
    [eof |-> FALSE, text |-> <<"s">>],
    [eof |-> TRUE,  text |-> <<>>] }

\* the most candidates the names of PlanUniverse give
MaxCandidates == 2
ResponseSeqs == [1..MaxCandidates -> Responses]

\* the command lines and answers tried: the answers vary where the script
\* prompts (--interactive without --dry-run), elsewhere the input is empty
NoAnswers == [i \in 1..MaxCandidates |-> [eof |-> TRUE, text |-> <<>>]]

MigrateArgs ==
  { [dry_run |-> d, interactive |-> i, no_archive |-> n, resp |-> r] :
      d \in BOOLEAN, i \in BOOLEAN, n \in BOOLEAN, r \in {NoAnswers} }
  \cup
  { [dry_run |-> FALSE, interactive |-> TRUE, no_archive |-> n, resp |-> r] :
      n \in BOOLEAN, r \in ResponseSeqs }

\* the loop of main over the candidates; st holds the workspace, the
\* candidates created so far, the answers not yet read, and crashed
RECURSIVE CreateLoop(_, _, _, _)
CreateLoop(st, todo, dry_run, interactive) ==
  IF todo = <<>> \/ st.crashed THEN st
  ELSE
    LET candidate == Head(todo)
        asks      == interactive /\ ~ dry_run
        answer    == Head(st.resp)
        response  == str_lower(StripChars(answer.text, {" "}))
        rest      == IF asks THEN Tail(st.resp) ELSE st.resp
    IN
    IF asks /\ answer.eof THEN [st EXCEPT !.crashed = TRUE]
    ELSE IF asks /\ response \in { <<"n">>, <<"s">> }
    THEN CreateLoop([st EXCEPT !.resp = rest], Tail(todo), dry_run, interactive)
    ELSE CreateLoop([st EXCEPT
                       !.w = create_feature_folder(st.w, candidate, dry_run),
                       !.created = Append(@, candidate),
                       !.resp = rest],
                    Tail(todo), dry_run, interactive)

\* main, once the workspace directory was found
RunMigration(w, dry_run, interactive, no_archive, resp) ==
  LET w1 == IF dry_run THEN w ELSE [w EXCEPT !.features_dir = TRUE]
      features == analyze_plans_directory(w1)
      st == CreateLoop([w |-> w1, created |-> <<>>, resp |-> resp,
                        crashed |-> FALSE],
                       features, dry_run, interactive)
      w2 == IF st.created = <<>> \/ st.crashed THEN st.w
            ELSE update_feature_index(st.w, st.created, dry_run)
      w3 == IF st.created = <<>> \/ st.crashed \/ no_archive THEN w2
            ELSE archive_migrated_plans(w2, st.created, dry_run)
  IN [w3 EXCEPT
        !.runs = @ + 1,
        !.out = [cmd |-> "migrate", dry_run |-> dry_run,
                 interactive |-> interactive, no_archive |-> no_archive,
                 rc |-> IF st.crashed THEN 1 ELSE 0,
                 candidates |-> features,
                 created |-> { st.created[i].name : i \in 1..Len(st.created) },
                 crashed |-> st.crashed]]

\* every workspace the script may be started on for the first time
InitMigrate ==
  /\ archive_base = RealRoot
  /\ fstate = [f \in FileUniverse |-> "ok"]
  /\ latest = [b \in Branches |-> IF b = <<"A", "main">> THEN T2 ELSE T1]
  /\ dbExists = FALSE
  /\ docs = {}
  /\ fts = {}
  /\ pc = "idle"
  /\ cur = NoCur
  /\ last = NoOutcome
  /\ clock = 0
  /\ call = NoCall
  /\ ws \in { NoWorkspace, [NoWorkspace EXCEPT !.exists = TRUE] }
            \cup { [NoWorkspace EXCEPT !.exists = TRUE, !.plans_dir = TRUE,
                                       !.plans = P] :
                     P \in SUBSET PlanUniverse }

\* the workspace directory is not there: the script says so and exits 1
MigrateNoWorkspace(dry_run, interactive, no_archive) ==
  /\ ~ ws.exists
  /\ ws.runs < MaxMigrations
  /\ ws' = [ws EXCEPT
              !.runs = @ + 1,
              !.out = [NoMigration EXCEPT
                         !.cmd = "migrate", !.dry_run = dry_run,
                         !.interactive = interactive,
                         !.no_archive = no_archive, !.rc = 1]]
  /\ UNCHANGED <<archive_base, fstate, latest, dbExists, docs, fts, pc, cur,
                 last, clock, call>>

Migrate(dry_run, interactive, no_archive, resp) ==
  /\ ws.exists
  /\ ws.runs < MaxMigrations
  /\ ws' = RunMigration(ws, dry_run, interactive, no_archive, resp)
  /\ UNCHANGED <<archive_base, fstate, latest, dbExists, docs, fts, pc, cur,
                 last, clock, call>>

NextMigrate ==
  \/ \E d \in BOOLEAN, i \in BOOLEAN, n \in BOOLEAN :
       MigrateNoWorkspace(d, i, n)
  \/ \E a \in MigrateArgs :
       Migrate(a.dry_run, a.interactive, a.no_archive, a.resp)

SpecMigrate == InitMigrate /\ [][NextMigrate]_vars

\* =============================================================== claims
\* what the claims say of the archive tree, stated without the walk:
\* a file is an archive document when it is a readable *.md file with no
\* excluded directory on its path, at least four segments below the root
\* and a timestamp directory as the third
IsArchiveFile(f) ==
  /\ fstate[f] = "ok"
  /\ MatchesMdGlob(f[Len(f)])
  /\ \A i \in 1..Len(f) : f[i] \notin SKIP_DIRS
  /\ Len(f) >= 4
  /\ TIMESTAMP_RE(f[3])

\* the paths of the archive documents under the directory `scan`
ArchivePathsUnder(scan) ==
  { AbsPath(archive_base, f) :
      f \in { g \in FileUniverse : IsArchiveFile(g) /\ IsPrefix(scan, g) } }

\* the last command was an ingest run that got past its two checks
RanIngest == last.cmd = "ingest" /\ last.rc = 0
RanScoped == RanIngest /\ ArgGiven(last.project)
RanFull   == RanIngest /\ ~ ArgGiven(last.project)

\* this step is an ingest run that got past its two checks
IngestStep == clock' = clock + 1 /\ last'.cmd = "ingest" /\ last'.rc = 0

\* a Document with the Content Record of its identifier, if any
WithContent(D, F) ==
  { <<d, { r.content : r \in { x \in F : x.rowid = d.id } }>> : d \in D }

\* C1: a scoped ingest of project A (the value of --project) leaves the
\* Documents of every other project, with all their attributes and their
\* Content Records, as they were: none removed, none added, none altered.
C1_ScopedIngestFrame ==
  [][ (IngestStep /\ ArgGiven(last'.project)) =>
        WithContent({ d \in docs' : ~ ArgEquals(last'.project, d.project) }, fts')
          = WithContent({ d \in docs : ~ ArgEquals(last'.project, d.project) }, fts)
    ]_vars

\* C2: no two Documents of the store have the same filepath.
C2_FilepathUnique ==
  \A d1 \in docs : \A d2 \in docs : d1.filepath = d2.filepath => d1 = d2

\* a run met a path that was already indexed, and the store kept one row
C2_Witness ==
  /\ RanIngest /\ last.dups > 0
  /\ \E d \in docs : TRUE

\* C3: Content Records and Documents correspond one to one by identifier:
\* every Content Record belongs to an existing Document, every Document has
\* exactly one Content Record, and it is the text of the Document's own file.
C3_ContentOneToOne ==
  /\ \A r \in fts : \E d \in docs : d.id = r.rowid
  /\ \A d \in docs :
       { r \in fts : r.rowid = d.id }
         = { [rowid |-> d.id, content |-> FileContent(Tail(d.filepath))] }
  /\ \A d1 \in docs : \A d2 \in docs : d1.id = d2.id => d1 = d2

\* a scoped run deleted a project's rows and indexed its files again, next to
\* rows of another project left from an earlier run
C3_Witness ==
  /\ RanScoped /\ last.count > 0
  /\ \E d \in docs : d.indexed_at = clock
  /\ \E d \in docs : d.indexed_at < clock

\* C4: an ingest run interrupted before its final commit leaves the scope's
\* pre-run Documents in the committed store.
C4_InterruptKeepsScope ==
  last.cmd = "interrupted" =>
    \A d \in cur.before :
      (~ ArgGiven(cur.project) \/ ArgEquals(cur.project, d.project))
        => d \in docs

\* the facets a claim compares between two runs (not the identifier, not the
\* time of indexing)
DocView(D) ==
  { [project |-> d.project, branch |-> d.branch, timestamp |-> d.timestamp,
     dir_type |-> d.dir_type, filepath |-> d.filepath,
     filename |-> d.filename, is_latest |-> d.is_latest] : d \in D }

\* C5: a full rebuild run right after a full rebuild, the tree untouched in
\* between, leaves the same number of Documents, with the same filepaths,
\* facets and is_latest flags, and reports the same count.
C5_FullRebuildIdempotent ==
  [][ (IngestStep /\ ~ ArgGiven(last'.project) /\ RanFull) =>
        /\ Cardinality(docs') = Cardinality(docs)
        /\ DocView(docs') = DocView(docs)
        /\ last'.count = last.count
    ]_vars

\* the second of two full rebuilds in a row has run, over a store with rows
C5_Witness ==
  RanFull /\ last.again /\ last.count > 0

\* C6: after a full rebuild the filepaths of the store are exactly the
\* archive documents now under the root, whatever the store held before.
C6_FullRebuildExact ==
  RanFull => { d.filepath : d \in docs } = ArchivePathsUnder(<<>>)

\* a full rebuild destroyed the row of a file that is gone and indexed the rest
C6_Witness ==
  /\ RanFull /\ last.dropped > 0 /\ last.count > 0
  /\ \E f \in MutableFiles : fstate[f] = "absent"

\* C7: after a scoped ingest with --project P the Documents whose project is
\* P are exactly the archive documents now under <root>/P.
C7_ScopedIngestExact ==
  RanScoped =>
    { d.filepath : d \in { x \in docs : ArgEquals(last.project, x.project) } }
      = ArchivePathsUnder(JoinPath(last.project))

\* C8: no insert of an ingest run meets a path that is already in the store.
C8_NoDuplicateError ==
  RanIngest => last.dups = 0

\* the branch whose timestamp directory a Document's file lies in, and the
\* directory a branch's `latest` link leads to
C9_LinkedDir(b) == b \o << latest[b] >>

C9_IsLatestTarget(d) ==
  \E b \in Branches :
    /\ latest[b] # "none"
    /\ C9_LinkedDir(b) \in Dirs
    /\ C9_LinkedDir(b) = <<d.project, d.branch, d.timestamp>>

\* C9: a Document inserted by an ingest run has is_latest set exactly when
\* its timestamp directory is, at that run, the target of a `latest` link.
C9_LatestFlag ==
  RanIngest =>
    \A d \in docs :
      d.filepath \in last.indexed =>
        (d.is_latest = 1 <=> C9_IsLatestTarget(d))

\* the words of a Content Record
Words(content) == { content[i] : i \in 1..Len(content) }
RowsOf(seq) == { seq[i] : i \in 1..Len(seq) }

\* a search for one word, without facet filters, with a limit of at least 1
C10_PlainSearch ==
  /\ last.cmd = "search" /\ dbExists
  /\ Len(last.pattern) = 1
  /\ last.filter = NoFilter
  /\ last.n >= 1

\* C10 (as stated): a search for a word that occurs in the content of one
\* indexed Document only returns that Document.
C10_UniqueWordFound ==
  C10_PlainSearch =>
    \A d \in docs : \A r \in fts :
      ( /\ r.rowid = d.id
        /\ last.pattern[1] \in Words(r.content)
        /\ \A o \in fts \ {r} : last.pattern[1] \notin Words(o.content) )
      => d.filepath \in RowsOf(last.rows)

\* C10 (amended): a search for a word that is a bareword of the query
\* grammar, occurs in the content of an indexed Document and has its token
\* (case-folded, stemmed) in no other Document's content returns that Document.
C10_UniqueTokenFound ==
  C10_PlainSearch =>
    \A d \in docs : \A r \in fts :
      ( /\ r.rowid = d.id
        /\ IsBareword(last.pattern[1])
        /\ last.pattern[1] \in Words(r.content)
        /\ \A o \in fts \ {r} :
             Token(last.pattern[1]) \notin Words(Tokens(o.content)) )
      => d.filepath \in RowsOf(last.rows)

\* such a search ran and returned the Document, for a word that is not its
\* own token
C10_Witness ==
  /\ C10_PlainSearch
  /\ \E d \in docs : \E r \in fts :
       /\ r.rowid = d.id
       /\ IsBareword(last.pattern[1])
       /\ last.pattern[1] \in Words(r.content)
       /\ Token(last.pattern[1]) # last.pattern[1]
       /\ \A o \in fts \ {r} :
            Token(last.pattern[1]) \notin Words(Tokens(o.content))
       /\ d.filepath \in RowsOf(last.rows)

\* the last command was a search that reached its SELECT and got rows back
C11_Searched == last.cmd = "search" /\ dbExists /\ last.rc = 0

\* the Document with this filepath
C11_Doc(path) == CHOOSE d \in docs : d.filepath = path

\* the Document's content holds every word of the query (as tokens)
C11_TextMatch(d, pattern) ==
  \E r \in fts :
    /\ r.rowid = d.id
    /\ \A i \in 1..Len(pattern) : Token(pattern[i]) \in Words(Tokens(r.content))

\* the Document satisfies every filter that was supplied
C11_Satisfies(d, flt) ==
  /\ flt.project # "" => d.project = flt.project
  /\ flt.type # "" => d.dir_type = flt.type
  /\ flt.branch # "" => d.branch = flt.branch
  /\ flt.latest => d.is_latest = 1

\* C11: every Document a search returns satisfies all of the facet filters
\* supplied (project, type, branch, latest-only, in any combination) and
\* matches the text query.
C11_ConjunctiveFilters ==
  C11_Searched =>
    \A i \in 1..Len(last.rows) :
      /\ \E d \in docs : d.filepath = last.rows[i]
      /\ C11_Satisfies(C11_Doc(last.rows[i]), last.filter)
      /\ C11_TextMatch(C11_Doc(last.rows[i]), last.pattern)

\* a search with --project and --type returned a Document and left out one
\* that matches the text and the project but is of another type
C11_Witness ==
  /\ C11_Searched /\ last.rows # <<>>
  /\ last.filter.project # "" /\ last.filter.type # ""
  /\ \E d \in docs :
       /\ C11_TextMatch(d, last.pattern)
       /\ d.project = last.filter.project
       /\ d.dir_type # last.filter.type
       /\ d.filepath \notin RowsOf(last.rows)

\* C12: a search returns at most `limit` Documents (none when the limit is
\* zero or negative), for every integer -n.
C12_LimitCaps ==
  last.cmd = "search" =>
    Len(last.rows) <= (IF last.n < 0 THEN 0 ELSE last.n)

\* the first Document is strictly more relevant to the query than the second
C13_Better(p1, p2) ==
  RankBefore(fts,
             CHOOSE r \in fts : r.rowid = C11_Doc(p1).id,
             CHOOSE r \in fts : r.rowid = C11_Doc(p2).id,
             last.pattern[1])

\* C13: the rows of a search come best match first, and no Document that
\* matches the query and the filters but was left out is strictly more
\* relevant than one that was returned.
C13_BestFirst ==
  C11_Searched =>
    /\ \A i \in 1..Len(last.rows) : \A j \in 1..Len(last.rows) :
         i < j => ~ C13_Better(last.rows[j], last.rows[i])
    /\ \A d \in docs :
         ( /\ C11_TextMatch(d, last.pattern)
           /\ C11_Satisfies(d, last.filter)
           /\ d.filepath \notin RowsOf(last.rows) )
         => \A i \in 1..Len(last.rows) : ~ C13_Better(d.filepath, last.rows[i])

\* a search limited to one row returned the more relevant of two matches,
\* which is not the one with the smaller identifier
C13_Witness ==
  /\ C11_Searched /\ Len(last.rows) = 1
  /\ \E d \in docs :
       /\ C11_TextMatch(d, last.pattern)
       /\ d.filepath \notin RowsOf(last.rows)
       /\ C13_Better(last.rows[1], d.filepath)
       /\ d.id < C11_Doc(last.rows[1]).id

\* queries the text-search grammar rejects: a lone operator, a phrase whose
\* quote is never closed
C14_InvalidQueries == { <<"AND">>, <<"\"jwt">> }

\* C14: a search whose query is invalid for the text-search grammar is
\* answered with the error message and its tip on the error stream, prints
\* no result, opens nothing and returns 1.
C14_InvalidQueryReported ==
  (last.cmd = "search" /\ dbExists /\ last.pattern \in C14_InvalidQueries) =>
    /\ last.rc = 1
    /\ last.stderr = "search error, tip"
    /\ last.stdout = <<>> /\ last.rows = <<>> /\ last.opened = <<>>

\* such a search ran over a store that holds a Document with the word
C14_Witness ==
  /\ last.cmd = "search" /\ dbExists /\ last.pattern = <<"AND">>
  /\ last.rc = 1
  /\ \E r \in fts : "AND" \in Words(r.content)

\* C15: an ingest run whose archive root is missing, or whose --project
\* names no directory under the root, returns 1 and leaves the store as it
\* was: no row deleted or inserted, no table dropped, no database created.
C15_ConfigErrorsLeaveStore ==
  [][ ( /\ clock' = clock + 1 /\ last'.cmd = "ingest"
        /\ \/ ~ RootExists(archive_base)
           \/ ArgGiven(last'.project) /\ ~ ScanRootExists(last'.project) )
      => /\ last'.rc = 1
         /\ docs' = docs /\ fts' = fts /\ dbExists' = dbExists
    ]_vars

\* a run was refused for its project, over a store that holds Documents
C15_Witness ==
  /\ last.cmd = "ingest" /\ last.stderr = "project not found" /\ last.rc = 1
  /\ docs # {}

\* C16: an ingest run that passed the two checks returns 0 without aborting,
\* its counts add up to the candidate files it visited, and every readable
\* archive document in its scope is in the store when it ends.
C16_NeverAborts ==
  ( /\ last.cmd = "ingest"
    /\ last.stderr \notin {"archive dir not found", "project not found"} )
  => /\ last.rc = 0 /\ ~ last.aborted
     /\ last.count + last.errors = last.visited
     /\ ArchivePathsUnder(JoinPath(last.project))
          \subseteq { d.filepath : d \in docs }

\* exactly eight decimal digits, an underscore and six decimal digits
C17_IsTimestamp(s) ==
  LET c == Chars(s) IN
    /\ Len(c) = 15
    /\ \A i \in (1..8) \cup (10..15) : c[i] \in Digits
    /\ c[9] = "_"

\* C17: the classifier rejects a relative path exactly when it has fewer
\* than 4 segments or its third segment is not 8 digits, "_", 6 digits;
\* otherwise it returns segments 1, 2, 3 and, as the category, segment 4 if
\* it is a known type, else "root".
C17_Classifier ==
  call.done =>
    LET parts == call.arg IN
    IF Len(parts) < 4 \/ ~ C17_IsTimestamp(parts[3])
    THEN call.result = NoParse
    ELSE call.result =
           [ ok |-> TRUE, project |-> parts[1], branch |-> parts[2],
             timestamp |-> parts[3],
             dir_type |-> IF parts[4] \in
                               {"plans", "context", "research", "reviews",
                                "filebox", "history", "prompts", "features"}
                          THEN parts[4] ELSE "root" ]

\* <project>/<branch>/<timestamp>/[<category>/]<filename>.md
C18_Convention(parts) ==
  /\ Len(parts) \in {4, 5}
  /\ C17_IsTimestamp(parts[3])
  /\ Len(parts) = 5 => parts[4] \in VALID_TYPES
  /\ MatchesMdGlob(parts[Len(parts)])

C18_Join(r, filename) ==
  <<r.project, r.branch, r.timestamp>>
    \o (IF r.dir_type = "root" THEN <<>> ELSE <<r.dir_type>>)
    \o <<filename>>

\* C18: for a path of the archive convention, joining the classifier's
\* project, branch, timestamp, category (left out when it is "root") and the
\* file name gives the relative path back.
C18_RoundTrip ==
  (call.done /\ C18_Convention(call.arg)) =>
    /\ call.result.ok
    /\ C18_Join(call.result, call.arg[Len(call.arg)]) = call.arg

\* a path with a category folder was classified
C18_Witness ==
  /\ call.done /\ C18_Convention(call.arg)
  /\ Len(call.arg) = 5
  /\ call.result.ok /\ call.result.dir_type = call.arg[4]

\* the last command was a search that had rows to show
C19_Shown == last.cmd = "search" /\ last.rows # <<>>

\* C19 (as stated): the picker is used exactly when (terminal or
\* --file-name) and picker installed and not --no-fzf, plain mode otherwise,
\* and plain mode whenever the output is not a terminal.
C19_ModeSelection ==
  C19_Shown =>
    /\ last.mode \in {"fzf", "plain"}
    /\ last.mode = "fzf" <=>
         ( /\ last.opt.tty \/ last.opt.file_name
           /\ last.opt.which /\ ~ last.opt.no_fzf )
    /\ ~ last.opt.tty => last.mode = "plain"

\* C19 (amended): the picker is used exactly when (terminal or --file-name)
\* and picker installed and not --no-fzf, plain mode otherwise; plain mode
\* whenever the output is not a terminal and --file-name is not given.
C19_ModeSelectionFileName ==
  C19_Shown =>
    /\ last.mode \in {"fzf", "plain"}
    /\ last.mode = "fzf" <=>
         ( /\ last.opt.tty \/ last.opt.file_name
           /\ last.opt.which /\ ~ last.opt.no_fzf )
    /\ (~ last.opt.tty /\ ~ last.opt.file_name) => last.mode = "plain"

\* rows went to the picker although the output was not a terminal
C19_Witness ==
  /\ C19_Shown /\ last.mode = "fzf"
  /\ ~ last.opt.tty /\ last.opt.file_name

\* C20: when the picker exits non-zero or selects nothing the search
\* returns 0, prints nothing and opens nothing; when the picker cannot be
\* started it writes "fzf not found" to the error stream and returns 1.
C20_CancelVsNotFound ==
  (last.cmd = "search" /\ last.mode = "fzf") =>
    /\ last.opt.pick \in {"cancelled", "empty"} =>
         /\ last.rc = 0 /\ last.stderr = ""
         /\ last.stdout = <<>> /\ last.opened = <<>>
    /\ last.opt.pick = "notfound" =>
         /\ last.rc = 1 /\ last.stderr = "fzf not found"
         /\ last.stdout = <<>> /\ last.opened = <<>>

\* the picker was started and the user left it with esc
C20_Witness ==
  /\ last.cmd = "search" /\ last.mode = "fzf"
  /\ last.opt.pick = "cancelled" /\ last.rc = 0

\* the picker is not there: shutil.which does not find it, or it is gone
\* when _fzf_pick starts it
C21_PickerAbsent ==
  \/ ~ last.opt.which
  \/ last.mode = "fzf" /\ last.opt.pick = "notfound"

\* C21: a search with rows to show and no picker binary reports that on the
\* error stream, returns 1 only if --file-name was given, and without
\* --file-name returns 0 with the plain listing.
C21_PickerAbsentRecovered ==
  (C19_Shown /\ C21_PickerAbsent) =>
    /\ last.stderr = "fzf not found"
    /\ last.rc = 1 => last.opt.file_name
    /\ ~ last.opt.file_name =>
         (last.rc = 0 /\ last.mode = "plain" /\ last.stdout # <<>>)

\* the resolved path of the directory a branch's `latest` link leads to
C22_Target(b) == <<"/r">> \o b \o << latest[b] >>

\* C22: the set the Latest Resolver hands to an ingest run holds exactly the
\* resolved targets of the entries named `latest` that are symbolic links to
\* an existing directory; an entry that is no link, a broken link and a link
\* to a file add nothing.
C22_LatestResolver ==
  RanIngest =>
    last.latest_dirs =
      { C22_Target(b) :
          b \in { x \in Branches :
                    /\ latest[x] \notin {"none", "plain", "gone", "notes.txt"}
                    /\ x \o << latest[x] >> \in Dirs } }

\* a run resolved one branch's link while another branch's entry named
\* latest was a directory, a broken link or a link to a file
C22_Witness ==
  /\ RanIngest /\ last.latest_dirs # {}
  /\ \E b \in Branches : latest[b] \in {"plain", "gone", "notes.txt"}

\* --project naming a branch's `latest` link: the walk starts at the link
C26_LinkArg == <<"A", "main", "latest">>

\* C26: no Document is stored under a path through `latest`: every Document
\* is stored under the path of its file through the timestamp directory, its
\* timestamp is that directory's name, and a run that walked in through the
\* link added no Document and met no error, duplicate path included.
C26_NeverThroughLatest ==
  /\ \A d \in docs :
        /\ \A i \in 1..Len(d.filepath) : d.filepath[i] # "latest"
        /\ Tail(d.filepath) \in FileUniverse
        /\ d.timestamp = d.filepath[4]
  /\ (RanIngest /\ last.project = C26_LinkArg) =>
        /\ last.count = 0 /\ last.errors = 0 /\ last.dups = 0
        /\ last.indexed = {}

\* a run walked in through the link, found files of a directory whose files
\* the store already held, and ended
C26_Witness ==
  /\ RanIngest /\ last.project = C26_LinkArg
  /\ RglobMd(C26_LinkArg) # <<>>
  /\ \E d \in docs :
        RealFile(C26_LinkArg) = SubSeq(d.filepath, 2, 4)

\* C25: every Document of the store has a timestamp of exactly eight digits,
\* an underscore and six digits, a category that is a known type or "root",
\* a filename that is the last segment of its filepath, and a filepath that
\* ends in .md and passes through no `.git` directory.
C25_StoredFacets ==
  \A d \in docs :
    /\ C17_IsTimestamp(d.timestamp)
    /\ d.dir_type \in
         {"plans", "context", "research", "reviews", "filebox", "history",
          "prompts", "features", "root"}
    /\ d.filename = d.filepath[Len(d.filepath)]
    /\ MatchesMdGlob(d.filepath[Len(d.filepath)])
    /\ \A i \in 1..Len(d.filepath) : d.filepath[i] # ".git"

\* the same without the timestamp facet
C25_OtherFacets ==
  \A d \in docs :
    /\ d.dir_type \in
         {"plans", "context", "research", "reviews", "filebox", "history",
          "prompts", "features", "root"}
    /\ d.filename = d.filepath[Len(d.filepath)]
    /\ MatchesMdGlob(d.filepath[Len(d.filepath)])
    /\ \A i \in 1..Len(d.filepath) : d.filepath[i] # ".git"

\* two characters are the same letter, case aside
C24_SameLetter(a, b) ==
  LET classes == { {"j", "J"}, {"w", "W"}, {"t", "T"},
                   {"U+039F", "U+03BF"}, {"U+03A3", "U+03C3", "U+03C2"} }
  IN a = b \/ \E cl \in classes : a \in cl /\ b \in cl

\* the term occurs in the line, case aside
C24_Occurs(line, t) ==
  \E i \in 0..(Len(line) - Len(t)) :
    \A k \in 1..Len(t) : C24_SameLetter(line[i + k], t[k])

\* the whitespace-delimited terms of a query, its double quotes removed
C24_IsTerm(pattern, t) ==
  LET p == SelectSeq(pattern, LAMBDA c : c # "\"") IN
  \E i \in 1..Len(p) : \E j \in i..Len(p) :
    /\ t = SubSeq(p, i, j)
    /\ \A k \in i..j : p[k] # " "
    /\ i = 1 \/ p[i - 1] = " "
    /\ j = Len(p) \/ p[j + 1] = " "

C24_Expected(lines, pattern, readable) ==
  LET p == SelectSeq(pattern, LAMBDA c : c # "\"")
      hit(n) == \E i \in 1..Len(p) : \E j \in i..Len(p) :
                  /\ C24_IsTerm(pattern, SubSeq(p, i, j))
                  /\ C24_Occurs(lines[n], SubSeq(p, i, j))
      hits == { n \in 1..Len(lines) : hit(n) }
  IN IF ~ readable \/ hits = {} THEN 1
     ELSE CHOOSE n \in hits : \A m \in hits : n <= m

\* C24: the line locator returns the number of the first line that
\* contains, case aside, one of the whitespace-delimited terms of the query
\* (double quotes removed), and 1 when there is no such line, when the query
\* has no terms or when the file cannot be read.
C24_LineLocator ==
  call.done =>
    call.result = C24_Expected(call.arg.lines, call.arg.pattern,
                               call.arg.readable)

\* the same for texts without a capital sigma
C24_NoSigma(s) == \A i \in 1..Len(s) : s[i] # "U+03A3"

C24_LineLocatorPlain ==
  ( /\ call.done
    /\ C24_NoSigma(call.arg.pattern)
    /\ \A n \in 1..Len(call.arg.lines) : C24_NoSigma(call.arg.lines[n]) ) =>
    call.result = C24_Expected(call.arg.lines, call.arg.pattern,
                               call.arg.readable)

\* what is on disk in the workspace
C23_Tree(w) ==
  [exists |-> w.exists, plans_dir |-> w.plans_dir, plans |-> w.plans,
   features_dir |-> w.features_dir, folders |-> w.folders,
   index |-> w.index, archive_dir |-> w.archive_dir,
   migrated |-> w.migrated]

\* C23: a run of the migration with --dry-run leaves the workspace as it
\* found it: no features/ directory, no feature folder or file in one, no
\* _index.md and no plan file moved, whatever the other switches are.
C23_DryRunChangesNothing ==
  [][ (ws'.runs # ws.runs /\ ws'.out.dry_run) => C23_Tree(ws') = C23_Tree(ws) ]_vars

\* a dry run went through candidates it would have created, on a workspace
\* that an earlier run or none had touched
C23_Witness ==
  /\ ws.out.cmd = "migrate" /\ ws.out.dry_run /\ ws.out.rc = 0
  /\ ws.out.created # {}
  /\ ~ ws.features_dir

\* the plan files of plans/ as the run found them: what is there now and
\* what the run moved away
C27_Created(w) ==
  { w.out.candidates[i] :
      i \in { k \in 1..Len(w.out.candidates) :
                w.out.candidates[k].name \in w.out.created } }

C27_FilesOf(cands) ==
  UNION { { c.source_files[k] : k \in 1..Len(c.source_files) } : c \in cands }

\* C27: every *.md file of plans/ other than current.md is a source file of
\* exactly one candidate, and the files a run moves to
\* filebox/migrated_plans/ are exactly the source files of the features it
\* created: none with --dry-run or --no-archive, none of a declined feature.
C27_MovedAreCreated ==
  [][ (ws'.runs # ws.runs /\ ws.exists) =>
        LET cands == ws'.out.candidates
            plan_files == { f \in ws.plans :
                              MatchesMdGlob(f) /\ f # "current.md" }
            moved == ws.plans \ ws'.plans
        IN
        /\ \A f \in plan_files :
              \E i \in 1..Len(cands) :
                /\ \E k \in 1..Len(cands[i].source_files) :
                      cands[i].source_files[k] = f
                /\ \A j \in 1..Len(cands) :
                      (\E k \in 1..Len(cands[j].source_files) :
                         cands[j].source_files[k] = f) => j = i
        /\ ws'.migrated = ws.migrated \cup moved
        /\ moved = IF ws'.out.dry_run \/ ws'.out.no_archive THEN {}
                   ELSE C27_FilesOf(C27_Created(ws')) ]_vars

\* the same for the runs that came to their end
C27_MovedAreCreatedRunToEnd ==
  [][ (ws'.runs # ws.runs /\ ws.exists /\ ~ ws'.out.crashed) =>
        LET moved == ws.plans \ ws'.plans IN
        /\ ws'.migrated = ws.migrated \cup moved
        /\ moved = IF ws'.out.dry_run \/ ws'.out.no_archive THEN {}
                   ELSE C27_FilesOf(C27_Created(ws')) ]_vars

====
